---------------------------- MODULE Spec2Model ----------------------------
(***************************************************************************)
(* A model of the transcribe-app concurrency core.                         *)
(*                                                                         *)
(*  - src/src-tauri/src/local_task_handler.rs: the Resource Owner          *)
(*    (run_local_task_handler), its Task channel, the ToggleRecording /    *)
(*    PasteFromClipboard / UndoText match arms and MediaPlayer.            *)
(*  - src/src-tauri/src/main.rs: AudioRecorder, and the trigger side       *)
(*    (toggle_recording, the tray-click handler, key_logger).              *)
(*                                                                         *)
(* Spec           : the Resource Owner and the triggers that send it tasks.*)
(* PolishSpec     : the polish workflows, served by the Resource Owner.    *)
(* FairPolishSpec : the same, with the fairness the two runtimes give.     *)
(* SpecMain       : the trigger side of main.rs.                           *)
(***************************************************************************)
EXTENDS Naturals, Sequences, FiniteSets

VARIABLES
    chan,            \* mpsc::Receiver<Task> rx: the tasks in flight
    units,           \* the spawn_local units dispatched and not yet run
    audio_recorder,  \* Rc<RefCell<AudioRecorder>>
    media_player,    \* Rc<RefCell<MediaPlayer>>
    icon,            \* the indicator (TranscribeIcon / the tray icon)
    reply,           \* the one-shot channel of each task, by task id
    enigo_log,       \* the input injections attempted, in order
    last,            \* what the most recent handling unit did
    next_id,         \* the number of tasks submitted so far
    env_sent,        \* the number of them submitted by the triggers
    session,         \* the number of capture sessions started so far
    held,            \* the cells whose RefMut a suspended unit still holds
    cleansing,       \* the single-flight guard of the polish workflow
    wf,              \* the polish workflow invocations, by invocation
    RECORDER,        \* main.rs: the thread_local RECORDER of each thread
    alive,           \* main.rs: the threads that have not panicked
    jobs,            \* main.rs: the spawned transcription tasks
    mlast,           \* main.rs: what the most recent toggle_recording did
    events           \* main.rs: the number of trigger events so far

ownerVars == <<chan, units, audio_recorder, media_player, icon, reply,
               enigo_log, last, next_id, env_sent, session, held>>

polishVars == <<cleansing, wf>>

mainVars == <<RECORDER, alive, jobs, mlast, events>>

vars == <<chan, units, audio_recorder, media_player, icon, reply,
          enigo_log, last, next_id, env_sent, session, held, cleansing, wf,
          RECORDER, alive, jobs, mlast, events>>

----------------------------------------------------------------------------
(* Bounds of the model *)

MaxEnvTasks == 4

MaxSamples == 2

NumWorkflows == 2

MaxOtherTasks == 1

MaxEvents == 4

MaxFairTasks == 3

(* Program constants *)

\* The capacity of the mpsc channel that main.rs creates and manages.
ChanCap == 1

----------------------------------------------------------------------------
(* AudioRecorder (main.rs) *)

AudioRecorder_new ==
    [stream |-> FALSE, sample_rate |-> "None", channels |-> "None",
     samples |-> <<>>, is_recording |-> FALSE]

\* WavWriter::create .. finalize, then fs::read: the container header
\* followed by the samples in order.
WavBytes(samples) == <<"RIFF">> \o samples

\* A start_recording that keeps the sample buffer of the session before.
start_recording_KeepsSamples(rec, outcome) ==
    IF rec.is_recording
    THEN [rec |-> rec, panicked |-> FALSE, cleared |-> FALSE]
    ELSE IF outcome = "no_device"
    THEN [rec |-> rec, panicked |-> TRUE, cleared |-> FALSE]
    ELSE LET r1 == [rec EXCEPT !.sample_rate = "Some", !.channels = "Some",
                               !.is_recording = TRUE]
         IN  IF outcome = "build_failed"
             THEN [rec |-> r1, panicked |-> TRUE, cleared |-> TRUE]
             ELSE [rec |-> [r1 EXCEPT !.stream = TRUE],
                   panicked |-> FALSE, cleared |-> TRUE]

\* outcome: "ok", "no_device" (the expect/unwrap on the device or its config)
\* or "build_failed" (the expect on build_input_stream or on stream.play).
start_recording(rec, outcome) ==
    IF rec.is_recording
    THEN [rec |-> rec, panicked |-> FALSE, cleared |-> FALSE]
    ELSE IF outcome = "no_device"
    THEN [rec |-> rec, panicked |-> TRUE, cleared |-> FALSE]
    ELSE LET r1 == [rec EXCEPT !.sample_rate = "Some", !.channels = "Some",
                               !.samples = <<>>, !.is_recording = TRUE]
         IN  IF outcome = "build_failed"
             THEN [rec |-> r1, panicked |-> TRUE, cleared |-> TRUE]
             ELSE [rec |-> [r1 EXCEPT !.stream = TRUE],
                   panicked |-> FALSE, cleared |-> TRUE]

\* stop_recording_and_get_bytes without its check of the buffer and format:
\* an empty recording is framed and returned.
stop_recording_unchecked(rec, io_ok) ==
    IF ~rec.is_recording
    THEN [rec |-> rec, some |-> FALSE, bytes |-> <<>>]
    ELSE LET r1 == [rec EXCEPT !.is_recording = FALSE, !.stream = FALSE]
         IN  IF ~io_ok
             THEN [rec |-> r1, some |-> FALSE, bytes |-> <<>>]
             ELSE [rec |-> r1, some |-> TRUE, bytes |-> WavBytes(r1.samples)]

\* io_ok: the temporary file, the WAV writer and the read back all succeed.
stop_recording_and_get_bytes(rec, io_ok) ==
    IF ~rec.is_recording
    THEN [rec |-> rec, some |-> FALSE, bytes |-> <<>>]
    ELSE LET r1 == [rec EXCEPT !.is_recording = FALSE, !.stream = FALSE]
         IN  IF r1.samples = <<>> \/ r1.sample_rate = "None"
                \/ r1.channels = "None"
             THEN [rec |-> r1, some |-> FALSE, bytes |-> <<>>]
             ELSE IF ~io_ok
             THEN [rec |-> r1, some |-> FALSE, bytes |-> <<>>]
             ELSE [rec |-> r1, some |-> TRUE, bytes |-> WavBytes(r1.samples)]

\* The answers of the collaborators that a toggle reads: those of the start
\* path (player queries, input device) are read only when the recorder is
\* idle, those of the stop path (file IO) only when it is recording.  On
\* the other path one value stands for all.
StartInputs(rec, S) ==
    IF rec.is_recording THEN {CHOOSE x \in S : TRUE} ELSE S

StopInputs(rec, S) ==
    IF rec.is_recording THEN S ELSE {CHOOSE x \in S : TRUE}

----------------------------------------------------------------------------
(* MediaPlayer (local_task_handler.rs) *)

MediaPlayer_new == [was_playing |-> FALSE]

\* osascript_ok: every osascript process could be run and its output read.
pause_spotify(mp, osascript_ok, is_running, is_playing) ==
    IF ~osascript_ok
    THEN [err |-> TRUE, mp |-> mp, cmd |-> FALSE]
    ELSE IF is_running /\ is_playing
    THEN [err |-> FALSE, mp |-> [mp EXCEPT !.was_playing = TRUE], cmd |-> TRUE]
    ELSE [err |-> FALSE, mp |-> mp, cmd |-> FALSE]

play_spotify(mp, osascript_ok) ==
    IF ~mp.was_playing
    THEN [err |-> FALSE, mp |-> mp, cmd |-> FALSE]
    ELSE IF ~osascript_ok
    THEN [err |-> TRUE, mp |-> mp, cmd |-> FALSE]
    ELSE [err |-> FALSE, mp |-> [mp EXCEPT !.was_playing = FALSE], cmd |-> TRUE]

----------------------------------------------------------------------------
(* Tasks and their one-shot channels *)

TaskKinds == {"ToggleRecording", "PasteFromClipboard", "UndoText"}

Task(kind, id) == [kind |-> kind, id |-> id]

NoChannel == [st |-> "none", data |-> <<>>]
Pending   == [st |-> "pending", data |-> <<>>]
Sent(d)   == [st |-> "sent", data |-> d]
\* A sender that is kept alive unsent: its receiver keeps waiting.
SenderKept == [st |-> "pending", data |-> <<>>]
Closed    == [st |-> "closed", data |-> <<>>]

Workflows == 1..NumWorkflows

WorkflowIdle ==
    [pc |-> "idle", paste_after |-> FALSE, undo_id |-> 0, paste_id |-> 0,
     reads |-> 0, writes |-> 0, service |-> 0]

\* main.rs: the tauri event loop thread (tray clicks) and the thread of
\* DeviceEventsHandler (key callbacks).
Threads == {"main", "keys"}

\* rec: the recorder as the call found it.  pause_cmd: the call ran the
\* pause command.  playing: at a toggle-in that started a recording, the
\* player was running and playing.
NoToggle ==
    [thread |-> "none", result |-> "none", rec |-> AudioRecorder_new,
     pause_cmd |-> FALSE, playing |-> FALSE]

\* rec, was_playing: the recorder and the media state as the unit found them.
\* playing: at a toggle-in, the player answered that it is running and
\* playing.  media_err: pause_spotify or play_spotify returned an error.
\* borrow_err: a borrow_mut of the unit found its cell already borrowed.
NoUnit ==
    [id |-> 0, kind |-> "none", rec |-> AudioRecorder_new,
     was_playing |-> FALSE, panicked |-> FALSE,
     pause_cmd |-> FALSE, play_cmd |-> FALSE,
     playing |-> FALSE, media_err |-> FALSE, borrow_err |-> FALSE]

----------------------------------------------------------------------------
(* The ToggleRecording arm, as a function of the owned cells and of what   *)
(* the collaborators answer.                                               *)

ToggleOut(rec, mp, ic, rep, panicked, pause_cmd, play_cmd, cleared, media_err) ==
    [rec |-> rec, mp |-> mp, icon |-> ic, reply |-> rep, panicked |-> panicked,
     pause_cmd |-> pause_cmd, play_cmd |-> play_cmd, cleared |-> cleared,
     media_err |-> media_err]

ToggleRecordingArm(rec, mp, ic, osascript_ok, is_running, is_playing, icon_ok, start_outcome, io_ok) ==
    IF ~rec.is_recording
    THEN LET p == pause_spotify(mp, osascript_ok, is_running, is_playing)
         IN  IF p.err
             THEN ToggleOut(rec, mp, ic, Closed, TRUE, FALSE, FALSE, FALSE,
                            TRUE)
             ELSE IF ~icon_ok
             THEN ToggleOut(rec, p.mp, ic, Closed, TRUE, p.cmd, FALSE, FALSE,
                            FALSE)
             ELSE LET s == start_recording(rec, start_outcome)
                  IN  IF s.panicked
                      THEN ToggleOut(s.rec, p.mp, "Recording", Closed, TRUE,
                                     p.cmd, FALSE, s.cleared, FALSE)
                      ELSE ToggleOut(s.rec, p.mp, "Recording", Sent(<<>>),
                                     FALSE, p.cmd, FALSE, s.cleared, FALSE)
    ELSE IF ~icon_ok
    THEN ToggleOut(rec, mp, ic, Closed, TRUE, FALSE, FALSE, FALSE, FALSE)
    ELSE LET s == stop_recording_and_get_bytes(rec, io_ok)
         IN  IF ~s.some
             THEN ToggleOut(s.rec, mp, "Default", Closed, FALSE,
                            FALSE, FALSE, FALSE, FALSE)
             ELSE LET q == play_spotify(mp, osascript_ok)
                  IN  IF q.err
                      THEN ToggleOut(s.rec, mp, "Default", Closed, TRUE,
                                     FALSE, FALSE, FALSE, TRUE)
                      ELSE ToggleOut(s.rec, q.mp, "Default", Sent(s.bytes),
                                     FALSE, FALSE, q.cmd, FALSE, FALSE)

\* The cells an arm borrows mutably (borrow_mut) when it starts.
ArmBorrows(kind) ==
    IF kind = "ToggleRecording"
    THEN {"audio_recorder", "media_player"}
    ELSE {"enigo"}

\* An arm that awaits with its guards alive (as if its reply were sent on
\* an awaited channel).
SuspendsHolding_Awaiting(kind) == ArmBorrows(kind)

\* The cells whose RefMut is alive at an await point of the arm: the arms
\* contain no await, every guard is dropped before the unit yields.
SuspendsHolding(kind) == {}

\* borrow_mut panics (BorrowMutError) when the cell is already borrowed.
BorrowConflict(kind) == ArmBorrows(kind) \cap held # {}

\* The PasteFromClipboard arm: enigo.paste_from_clipboard().unwrap()
PasteFromClipboardArm(paste_ok) ==
    [attempts |-> <<"paste">>, panicked |-> ~paste_ok]

\* An UndoText arm that replies without invoking the undo.
UndoTextArm_ReplyOnly(undo_ok) ==
    [attempts |-> <<>>, panicked |-> FALSE, reply |-> Sent(<<>>)]

\* An UndoText arm that, when the undo fails, neither replies nor drops
\* the sender.
UndoTextArm_KeepsSender(undo_ok) ==
    [attempts |-> <<"undo">>, panicked |-> FALSE,
     reply |-> IF undo_ok THEN Sent(<<>>) ELSE Pending]

\* The UndoText arm: enigo.undo_text().unwrap(); tx_undo.send(()).unwrap()
UndoTextArm(undo_ok) ==
    [attempts |-> <<"undo">>, panicked |-> ~undo_ok,
     reply |-> IF undo_ok THEN Sent(<<>>) ELSE Closed]

Injection(act, id) == [act |-> act, id |-> id]

----------------------------------------------------------------------------
(* Actions of the Resource Owner and of its clients *)

Init ==
    /\ chan = <<>>
    /\ units = <<>>
    /\ audio_recorder = AudioRecorder_new
    /\ media_player = MediaPlayer_new
    /\ icon = "Default"
    /\ reply = [i \in {} |-> NoChannel]
    /\ enigo_log = <<>>
    /\ last = NoUnit
    /\ next_id = 0
    /\ env_sent = 0
    /\ session = 0
    /\ held = {}
    /\ cleansing = FALSE
    /\ wf = [w \in Workflows |-> WorkflowIdle]
    /\ RECORDER = [t \in Threads |-> AudioRecorder_new]
    /\ alive = [t \in Threads |-> TRUE]
    /\ jobs = <<>>
    /\ mlast = NoToggle
    /\ events = 0

\* A trigger sends a task into the Task Channel (tx.send(task).await).
Submit ==
    /\ env_sent < MaxEnvTasks
    /\ Len(chan) < ChanCap
    /\ \E kind \in TaskKinds :
          /\ chan' = Append(chan, Task(kind, next_id + 1))
          /\ reply' = [i \in 1..(next_id + 1) |->
                          IF i <= next_id THEN reply[i]
                          ELSE IF kind = "PasteFromClipboard"
                               THEN NoChannel ELSE Pending]
    /\ next_id' = next_id + 1
    /\ env_sent' = env_sent + 1
    /\ UNCHANGED <<held, units, audio_recorder, media_player, icon, enigo_log,
                   last, session, cleansing, wf, mainVars>>

\* While a polish workflow may be running, another trigger sends a task
\* for the input-injection handle.
SubmitOther ==
    /\ env_sent < MaxOtherTasks
    /\ Len(chan) < ChanCap
    /\ \E kind \in {"PasteFromClipboard", "UndoText"} :
          /\ chan' = Append(chan, Task(kind, next_id + 1))
          /\ reply' = [i \in 1..(next_id + 1) |->
                          IF i <= next_id THEN reply[i]
                          ELSE IF kind = "PasteFromClipboard"
                               THEN NoChannel ELSE Pending]
    /\ next_id' = next_id + 1
    /\ env_sent' = env_sent + 1
    /\ UNCHANGED <<held, units, audio_recorder, media_player, icon, enigo_log,
                   last, session, cleansing, wf, mainVars>>

\* The triggers of the runs that are checked under fairness.
SubmitFair ==
    /\ env_sent < MaxFairTasks
    /\ Len(chan) < ChanCap
    /\ \E kind \in TaskKinds :
          /\ chan' = Append(chan, Task(kind, next_id + 1))
          /\ reply' = [i \in 1..(next_id + 1) |->
                          IF i <= next_id THEN reply[i]
                          ELSE IF kind = "PasteFromClipboard"
                               THEN NoChannel ELSE Pending]
    /\ next_id' = next_id + 1
    /\ env_sent' = env_sent + 1
    /\ UNCHANGED <<held, units, audio_recorder, media_player, icon,
                   enigo_log, last, session, cleansing, wf, mainVars>>

\* A dispatcher whose newest unit runs first.
Recv_Lifo ==
    /\ chan # <<>>
    /\ units' = <<Head(chan)>> \o units
    /\ chan' = Tail(chan)
    /\ UNCHANGED <<held, audio_recorder, media_player, icon, reply, enigo_log,
                   last, next_id, env_sent, session, cleansing, wf, mainVars>>

\* while let Some(task) = rx.recv().await { spawn_local(..) }
Recv ==
    /\ chan # <<>>
    /\ units' = Append(units, Head(chan))
    /\ chan' = Tail(chan)
    /\ UNCHANGED <<held, audio_recorder, media_player, icon, reply, enigo_log,
                   last, next_id, env_sent, session, cleansing, wf, mainVars>>

\* The capture callback, on the audio thread, while a stream is alive.
Capture ==
    /\ audio_recorder.stream
    /\ Len(audio_recorder.samples) < MaxSamples
    /\ audio_recorder' =
          [audio_recorder EXCEPT !.samples = Append(@, session)]
    /\ UNCHANGED <<held, chan, units, media_player, icon, reply, enigo_log, last,
                   next_id, env_sent, session, cleansing, wf, mainVars>>

ToggleRecording ==
    /\ units # <<>>
    /\ Head(units).kind = "ToggleRecording"
    /\ \E osascript_ok \in BOOLEAN, icon_ok \in BOOLEAN,
          is_running \in StartInputs(audio_recorder, BOOLEAN),
          is_playing \in StartInputs(audio_recorder, BOOLEAN),
          start_outcome \in StartInputs(audio_recorder,
                                        {"ok", "no_device", "build_failed"}),
          io_ok \in StopInputs(audio_recorder, BOOLEAN) :
          LET t == Head(units)
              o == ToggleRecordingArm(audio_recorder, media_player, icon,
                                      osascript_ok, is_running, is_playing,
                                      icon_ok, start_outcome, io_ok)
          IN  IF BorrowConflict(t.kind)
              THEN /\ reply' = [reply EXCEPT ![t.id] = Closed]
                   /\ last' = [NoUnit EXCEPT !.id = t.id, !.kind = t.kind,
                                             !.rec = audio_recorder,
                                             !.panicked = TRUE,
                                             !.borrow_err = TRUE]
                   /\ UNCHANGED <<audio_recorder, media_player, icon,
                                  session, held>>
              ELSE /\ audio_recorder' = o.rec
                   /\ media_player' = o.mp
                   /\ icon' = o.icon
                   /\ reply' = [reply EXCEPT ![t.id] = o.reply]
                   /\ session' = IF o.cleared THEN session + 1 ELSE session
                   /\ held' = held \cup SuspendsHolding(t.kind)
                   /\ last' = [id |-> t.id, kind |-> t.kind,
                               rec |-> audio_recorder,
                               was_playing |-> media_player.was_playing,
                               panicked |-> o.panicked,
                               pause_cmd |-> o.pause_cmd,
                               play_cmd |-> o.play_cmd,
                               playing |-> /\ ~audio_recorder.is_recording
                                           /\ osascript_ok
                                           /\ is_running /\ is_playing,
                               media_err |-> o.media_err,
                               borrow_err |-> FALSE]
    /\ units' = Tail(units)
    /\ UNCHANGED <<chan, enigo_log, next_id, env_sent, cleansing, wf,
                   mainVars>>

PasteFromClipboard ==
    /\ units # <<>>
    /\ Head(units).kind = "PasteFromClipboard"
    /\ \E paste_ok \in BOOLEAN :
          LET t == Head(units)
              o == PasteFromClipboardArm(paste_ok)
          IN  IF BorrowConflict(t.kind)
              THEN /\ last' = [NoUnit EXCEPT !.id = t.id, !.kind = t.kind,
                                             !.panicked = TRUE,
                                             !.borrow_err = TRUE]
                   /\ UNCHANGED <<enigo_log, held>>
              ELSE /\ enigo_log' = enigo_log \o
                         [i \in 1..Len(o.attempts) |->
                             Injection(o.attempts[i], t.id)]
                   /\ held' = held \cup SuspendsHolding(t.kind)
                   /\ last' = [NoUnit EXCEPT !.id = t.id, !.kind = t.kind,
                                             !.panicked = o.panicked]
    /\ units' = Tail(units)
    /\ UNCHANGED <<chan, audio_recorder, media_player, icon, reply, next_id,
                   env_sent, session, cleansing, wf, mainVars>>

UndoText ==
    /\ units # <<>>
    /\ Head(units).kind = "UndoText"
    /\ \E undo_ok \in BOOLEAN :
          LET t == Head(units)
              o == UndoTextArm(undo_ok)
          IN  IF BorrowConflict(t.kind)
              THEN /\ reply' = [reply EXCEPT ![t.id] = Closed]
                   /\ last' = [NoUnit EXCEPT !.id = t.id, !.kind = t.kind,
                                             !.panicked = TRUE,
                                             !.borrow_err = TRUE]
                   /\ UNCHANGED <<enigo_log, held>>
              ELSE /\ enigo_log' = enigo_log \o
                         [i \in 1..Len(o.attempts) |->
                             Injection(o.attempts[i], t.id)]
                   /\ reply' = [reply EXCEPT ![t.id] = o.reply]
                   /\ held' = held \cup SuspendsHolding(t.kind)
                   /\ last' = [NoUnit EXCEPT !.id = t.id, !.kind = t.kind,
                                             !.panicked = o.panicked]
    /\ units' = Tail(units)
    /\ UNCHANGED <<chan, audio_recorder, media_player, icon, next_id,
                   env_sent, session, cleansing, wf, mainVars>>

----------------------------------------------------------------------------
(* The Polish Workflow Coordinator: cleanse_clipboard(context, paste_after) *)

\* A guard that is set without being checked.
AcquireGuard_Unchecked(guard) == [acquired |-> TRUE, guard |-> TRUE]

\* The check-and-set of the single-flight guard, as one indivisible step.
AcquireGuard(guard) ==
    IF guard
    THEN [acquired |-> FALSE, guard |-> guard]
    ELSE [acquired |-> TRUE, guard |-> TRUE]

\* A trigger (hotkey or menu item) launches the workflow.
WfLaunch(w) ==
    /\ wf[w].pc = "idle"
    /\ \E paste_after \in BOOLEAN :
          wf' = [wf EXCEPT ![w].pc = "read", ![w].paste_after = paste_after]
    /\ UNCHANGED <<held, ownerVars, cleansing, mainVars>>

\* Step 1: read the clipboard text; empty or unreadable ends the workflow.
WfReadClipboard(w) ==
    /\ wf[w].pc = "read"
    /\ \E text \in {"", "text"} :
          wf' = [wf EXCEPT ![w].reads = @ + 1,
                           ![w].pc = IF text = "" THEN "empty" ELSE "acquire"]
    /\ UNCHANGED <<held, ownerVars, cleansing, mainVars>>

\* Step 2: acquire the guard, or exit when it is held.
WfAcquire(w) ==
    /\ wf[w].pc = "acquire"
    /\ LET a == AcquireGuard(cleansing)
       IN  /\ cleansing' = a.guard
           /\ wf' = [wf EXCEPT ![w].pc = IF a.acquired THEN "begin"
                                         ELSE "rejected"]
    /\ UNCHANGED <<held, ownerVars, mainVars>>

\* Step 3: the indicator goes to Cleansing.
WfBegin(w) ==
    /\ wf[w].pc = "begin"
    /\ icon' = "Cleansing"
    /\ wf' = [wf EXCEPT ![w].pc = "service"]
    /\ UNCHANGED <<held, chan, units, audio_recorder, media_player, reply,
                   enigo_log, last, next_id, env_sent, session, cleansing,
                   mainVars>>

\* Step 4: the polish service answers, or fails.
WfService(w) ==
    /\ wf[w].pc = "service"
    /\ \E service_ok \in BOOLEAN :
          wf' = [wf EXCEPT ![w].service = @ + 1,
                           ![w].pc = IF service_ok THEN "write" ELSE "cleanup"]
    /\ UNCHANGED <<held, ownerVars, cleansing, mainVars>>

\* Step 5: write the cleansed text to the clipboard.
WfWriteClipboard(w) ==
    /\ wf[w].pc = "write"
    /\ \E write_ok \in BOOLEAN :
          wf' = [wf EXCEPT ![w].writes = @ + 1,
                           ![w].pc = IF write_ok /\ wf[w].paste_after
                                     THEN "send_undo" ELSE "cleanup"]
    /\ UNCHANGED <<held, ownerVars, cleansing, mainVars>>

\* Submit UndoText with a fresh one-shot reply channel.
WfSendUndo(w) ==
    /\ wf[w].pc = "send_undo"
    /\ Len(chan) < ChanCap
    /\ chan' = Append(chan, Task("UndoText", next_id + 1))
    /\ reply' = [i \in 1..(next_id + 1) |->
                    IF i <= next_id THEN reply[i] ELSE Pending]
    /\ next_id' = next_id + 1
    /\ wf' = [wf EXCEPT ![w].pc = "await_undo", ![w].undo_id = next_id + 1]
    /\ UNCHANGED <<held, units, audio_recorder, media_player, icon, enigo_log,
                   last, env_sent, session, cleansing, mainVars>>

\* Await the reply: a value, or the channel closed (treated as a failure).
WfAwaitUndo(w) ==
    /\ wf[w].pc = "await_undo"
    /\ reply[wf[w].undo_id].st \in {"sent", "closed"}
    /\ wf' = [wf EXCEPT ![w].pc = IF reply[wf[w].undo_id].st = "sent"
                                  THEN "send_paste" ELSE "cleanup"]
    /\ UNCHANGED <<held, ownerVars, cleansing, mainVars>>

\* Submit PasteFromClipboard, fire-and-forget.
WfSendPaste(w) ==
    /\ wf[w].pc = "send_paste"
    /\ Len(chan) < ChanCap
    /\ chan' = Append(chan, Task("PasteFromClipboard", next_id + 1))
    /\ reply' = [i \in 1..(next_id + 1) |->
                    IF i <= next_id THEN reply[i] ELSE NoChannel]
    /\ next_id' = next_id + 1
    /\ wf' = [wf EXCEPT ![w].pc = "cleanup", ![w].paste_id = next_id + 1]
    /\ UNCHANGED <<held, units, audio_recorder, media_player, icon, enigo_log,
                   last, env_sent, session, cleansing, mainVars>>

\* The terminal reset: indicator to Default, guard released.
WfCleanup(w) ==
    /\ wf[w].pc = "cleanup"
    /\ icon' = "Default"
    /\ cleansing' = FALSE
    /\ wf' = [wf EXCEPT ![w].pc = "done"]
    /\ UNCHANGED <<held, chan, units, audio_recorder, media_player, reply,
                   enigo_log, last, next_id, env_sent, session, mainVars>>

WfRun(w) ==
    \/ WfReadClipboard(w)
    \/ WfAcquire(w)
    \/ WfBegin(w)
    \/ WfService(w)
    \/ WfWriteClipboard(w)
    \/ WfSendUndo(w)
    \/ WfAwaitUndo(w)
    \/ WfSendPaste(w)
    \/ WfCleanup(w)

WfStep(w) ==
    \/ WfLaunch(w)
    \/ WfRun(w)

Next ==
    \/ Submit
    \/ Recv
    \/ Capture
    \/ ToggleRecording
    \/ PasteFromClipboard
    \/ UndoText

Spec == Init /\ [][Next]_vars

\* The workflows and the Resource Owner that serves them.
WorkflowNext ==
    \/ Recv
    \/ PasteFromClipboard
    \/ UndoText
    \/ \E w \in Workflows : WfStep(w)

\* The Resource Owner under a fair scheduler: the receive loop and every
\* spawned unit are polled for as long as they are ready.
FairNext ==
    \/ SubmitFair
    \/ Recv
    \/ Capture
    \/ ToggleRecording
    \/ PasteFromClipboard
    \/ UndoText

FairSpec ==
    /\ Init
    /\ [][FairNext]_vars
    /\ WF_vars(Recv)
    /\ WF_vars(ToggleRecording)
    /\ WF_vars(PasteFromClipboard)
    /\ WF_vars(UndoText)

PolishNext ==
    \/ SubmitOther
    \/ WorkflowNext

PolishSpec == Init /\ [][PolishNext]_vars

\* The Resource Owner's runtime keeps polling its loop and its units, and
\* the multi-threaded runtime keeps polling a launched workflow; the polish
\* service answers or fails.  Tasks of other triggers are finitely many and
\* can only delay a workflow, so progress is checked without them.
FairPolishSpec ==
    /\ Init /\ [][WorkflowNext]_vars
    /\ WF_vars(Recv)
    /\ WF_vars(PasteFromClipboard)
    /\ WF_vars(UndoText)
    /\ \A w \in Workflows : WF_vars(WfRun(w))

----------------------------------------------------------------------------
(* main.rs: toggle_recording and the two triggers that call it *)

ToggleResult(rec, ic, result, bytes, pause_cmd, cleared) ==
    [rec |-> rec, icon |-> ic, result |-> result, bytes |-> bytes,
     pause_cmd |-> pause_cmd, cleared |-> cleared]

\* tray_ok: tray_by_id finds the tray icon; icon_ok: Image::from_path and
\* set_icon succeed.  result "panic" is the expect inside start_recording.
toggle_recording(rec, ic, tray_ok, start_outcome, icon_ok, io_ok) ==
    IF ~tray_ok
    THEN ToggleResult(rec, ic, "Err", <<>>, FALSE, FALSE)
    ELSE IF ~rec.is_recording
    THEN LET s == start_recording(rec, start_outcome)
         IN  IF s.panicked
             THEN ToggleResult(s.rec, ic, "panic", <<>>, TRUE, s.cleared)
             ELSE IF ~icon_ok
             THEN ToggleResult(s.rec, ic, "Err", <<>>, TRUE, s.cleared)
             ELSE ToggleResult(s.rec, "Recording", "StartRecording", <<>>,
                               TRUE, s.cleared)
    ELSE LET s == stop_recording_and_get_bytes(rec, io_ok)
         IN  IF ~s.some
             THEN ToggleResult(s.rec, ic, "Err", <<>>, FALSE, FALSE)
             ELSE IF ~icon_ok
             THEN ToggleResult(s.rec, ic, "Err", <<>>, FALSE, FALSE)
             ELSE ToggleResult(s.rec, "Transcribing", "RecordingResult",
                               s.bytes, FALSE, FALSE)

NewJob(trigger) ==
    [trigger |-> trigger, pc |-> "api", api_ok |-> FALSE, write_ok |-> FALSE,
     icon_reset |-> FALSE, pasted |-> FALSE]

\* What the tray-click handler does with the result: expect(..) on it.
TrayClickSurvives(result) == result \in {"StartRecording", "RecordingResult"}

\* What the key-down callback does with the result: map_err(log), return.
KeyDownSurvives(result) == result # "panic"

\* on_tray_icon_event: TrayIconEvent::Click with MouseButtonState::Down.
\* player_playing: the external player is running and playing; the handler
\* does not ask.
TrayClick ==
    /\ alive["main"]
    /\ events < MaxEvents
    /\ \E tray_ok \in BOOLEAN, icon_ok \in BOOLEAN,
          io_ok \in StopInputs(RECORDER["main"], BOOLEAN),
          start_outcome \in StartInputs(RECORDER["main"],
                                        {"ok", "no_device", "build_failed"}),
          player_playing \in StartInputs(RECORDER["main"], BOOLEAN) :
          LET r == toggle_recording(RECORDER["main"], icon, tray_ok,
                                    start_outcome, icon_ok, io_ok)
          IN  /\ RECORDER' = [RECORDER EXCEPT !["main"] = r.rec]
              /\ icon' = r.icon
              /\ session' = IF r.cleared THEN session + 1 ELSE session
              /\ alive' = [alive EXCEPT
                              !["main"] = TrayClickSurvives(r.result)]
              /\ jobs' = IF r.result = "RecordingResult"
                         THEN Append(jobs, NewJob("tray")) ELSE jobs
              /\ mlast' = [thread |-> "main", result |-> r.result,
                           rec |-> RECORDER["main"],
                           pause_cmd |-> r.pause_cmd,
                           playing |-> /\ r.result = "StartRecording"
                                       /\ player_playing]
    /\ events' = events + 1
    /\ UNCHANGED <<held, chan, units, audio_recorder, media_player, reply,
                   enigo_log, last, next_id, env_sent, polishVars>>

\* key_logger's on_key_down callback, for a key that passes its filters
\* (R or S with Command and Control held, or F6).
KeyDown ==
    /\ alive["main"]
    /\ alive["keys"]
    /\ events < MaxEvents
    /\ \E tray_ok \in BOOLEAN, icon_ok \in BOOLEAN,
          io_ok \in StopInputs(RECORDER["keys"], BOOLEAN),
          start_outcome \in StartInputs(RECORDER["keys"],
                                        {"ok", "no_device", "build_failed"}),
          player_playing \in StartInputs(RECORDER["keys"], BOOLEAN) :
          LET r == toggle_recording(RECORDER["keys"], icon, tray_ok,
                                    start_outcome, icon_ok, io_ok)
          IN  /\ RECORDER' = [RECORDER EXCEPT !["keys"] = r.rec]
              /\ icon' = r.icon
              /\ session' = IF r.cleared THEN session + 1 ELSE session
              /\ alive' = [alive EXCEPT
                              !["keys"] = KeyDownSurvives(r.result)]
              /\ jobs' = IF r.result = "RecordingResult"
                         THEN Append(jobs, NewJob("hotkey")) ELSE jobs
              /\ mlast' = [thread |-> "keys", result |-> r.result,
                           rec |-> RECORDER["keys"],
                           pause_cmd |-> r.pause_cmd,
                           playing |-> /\ r.result = "StartRecording"
                                       /\ player_playing]
    /\ events' = events + 1
    /\ UNCHANGED <<held, chan, units, audio_recorder, media_player, reply,
                   enigo_log, last, next_id, env_sent, polishVars>>

\* A task that injects the paste keys whatever its trigger.
AutoPaste_Always(trigger) == TRUE

\* Whether the spawned task ends with the paste keys: the task of the key
\* callback does (ENIGO.with_borrow_mut), the task of the tray handler
\* does not.
AutoPaste(trigger) == trigger = "hotkey"

\* The spawned task: call the API, write the clipboard, reset the icon and,
\* for the hotkey, inject the paste keys.  Each unwrap ends the task.
\* icon_outcome: "ok", "set_failed" (ignored by the code) or "no_tray"
\* (the unwrap on tray_by_id).
TranscriptionTask(job, ic, api_ok, write_ok, icon_outcome) ==
    IF ~api_ok
    THEN [job |-> [job EXCEPT !.pc = "panicked"], icon |-> ic]
    ELSE IF ~write_ok
    THEN [job |-> [job EXCEPT !.pc = "panicked", !.api_ok = TRUE], icon |-> ic]
    ELSE IF icon_outcome = "no_tray"
    THEN [job |-> [job EXCEPT !.pc = "panicked", !.api_ok = TRUE,
                              !.write_ok = TRUE],
          icon |-> ic]
    ELSE [job |-> [job EXCEPT !.pc = "done", !.api_ok = TRUE,
                              !.write_ok = TRUE,
                              !.icon_reset = (icon_outcome = "ok"),
                              !.pasted = AutoPaste(job.trigger)],
          icon |-> IF icon_outcome = "ok" THEN "Default" ELSE ic]

Transcribe(j) ==
    /\ alive["main"]
    /\ jobs[j].pc = "api"
    /\ \E api_ok \in BOOLEAN, write_ok \in BOOLEAN,
          icon_outcome \in {"ok", "set_failed", "no_tray"} :
          LET o == TranscriptionTask(jobs[j], icon, api_ok, write_ok,
                                     icon_outcome)
          IN  /\ jobs' = [jobs EXCEPT ![j] = o.job]
              /\ icon' = o.icon
    /\ UNCHANGED <<held, chan, units, audio_recorder, media_player, reply,
                   enigo_log, last, next_id, env_sent, session, polishVars,
                   RECORDER, alive, mlast, events>>

\* The capture callback of a thread's recorder.
MainCapture(t) ==
    /\ alive["main"]
    /\ RECORDER[t].stream
    /\ Len(RECORDER[t].samples) < MaxSamples
    /\ RECORDER' = [RECORDER EXCEPT ![t].samples = Append(@, session)]
    /\ UNCHANGED <<held, chan, units, audio_recorder, media_player, icon, reply,
                   enigo_log, last, next_id, env_sent, session, polishVars,
                   alive, jobs, mlast, events>>

MainNext ==
    \/ TrayClick
    \/ KeyDown
    \/ \E j \in 1..Len(jobs) : Transcribe(j)
    \/ \E t \in Threads : MainCapture(t)

SpecMain == Init /\ [][MainNext]_vars

----------------------------------------------------------------------------
(* Properties of the Resource Owner (checked under Spec) *)

LastIsToggle == last.kind = "ToggleRecording"

\* The last unit was a ToggleRecording that found the recorder idle /
\* recording.
LastToggleIn == LastIsToggle /\ ~last.rec.is_recording

LastToggleOut == LastIsToggle /\ last.rec.is_recording

NoData(rec) ==
    \/ ~rec.is_recording
    \/ rec.samples = <<>>
    \/ rec.sample_rate = "None"
    \/ rec.channels = "None"

\* Every value an AudioRecorder can hold, with up to MaxSamples samples.
AnyRecorder ==
    [stream : BOOLEAN, sample_rate : {"None", "Some"},
     channels : {"None", "Some"},
     samples : UNION {[1..n -> {1}] : n \in 0..MaxSamples},
     is_recording : BOOLEAN]

\* C1: is_recording starts false and flips on every handled ToggleRecording;
\* the reply is the empty byte sequence exactly on the tasks that move the
\* recorder idle -> recording, and on the tasks that move it recording ->
\* idle the reply is a non-empty byte sequence or there is no reply.
C1_ToggleAlternates ==
    /\ next_id = 0 => ~audio_recorder.is_recording
    /\ LastIsToggle =>
          /\ audio_recorder.is_recording = ~last.rec.is_recording
          /\ (reply[last.id] = Sent(<<>>)) <=> LastToggleIn
          /\ LastToggleOut =>
                \/ reply[last.id].st = "closed"
                \/ reply[last.id].st = "sent" /\ reply[last.id].data # <<>>

\* C2: stop_recording_and_get_bytes returns no data on a recorder that is
\* not recording, has an empty sample buffer or lacks its format; the
\* ToggleRecording arm then sends nothing, and a toggle-out never sends a
\* zero-length reply.
C2_NoDataNoReply ==
    /\ \A rec \in AnyRecorder, io_ok \in BOOLEAN :
          NoData(rec) => ~stop_recording_and_get_bytes(rec, io_ok).some
    /\ LastToggleOut /\ NoData(last.rec) => reply[last.id] = Closed
    /\ LastToggleOut => reply[last.id] # Sent(<<>>)

\* A toggle-out that found the sample buffer empty has been handled.
C2_Witness ==
    /\ LastToggleOut
    /\ last.rec.samples = <<>>
    /\ ~last.panicked
    /\ reply[last.id] = Closed

\* C3: at a toggle-out a resume command is issued if and only if a prior
\* pause paused the player (was_playing was set); and after a toggle-out
\* that follows such a pause, one resume has been issued and was_playing is
\* false again.  Stated of the toggle-outs of a recorder that was capturing
\* and whose unit ran to its end, so that no panic is involved.
C3_ResumeIffPaused ==
    LastToggleOut /\ last.rec.stream /\ ~last.panicked =>
        /\ last.play_cmd <=> last.was_playing
        /\ last.was_playing => last.play_cmd /\ ~media_player.was_playing

\* C4: the Resource Owner never panics while handling a task: a failing
\* paste or undo injection is logged and the unit ends normally.
C4_NeverPanics ==
    last.kind \in {"PasteFromClipboard", "UndoText"} => ~last.panicked

\* C5: for every UndoText task handled, a unit reply is sent on its
\* one-shot channel, whether the undo injection succeeded or failed.
C5_UndoAlwaysReplies ==
    last.kind = "UndoText" => reply[last.id] = Sent(<<>>)

----------------------------------------------------------------------------
(* Properties of the polish workflow (checked under PolishSpec and         *)
(* FairPolishSpec)                                                         *)

\* The position of an injection in enigo_log, 0 when it was not attempted.
Pos(act, id) ==
    IF \E i \in 1..Len(enigo_log) : enigo_log[i] = Injection(act, id)
    THEN CHOOSE i \in 1..Len(enigo_log) : enigo_log[i] = Injection(act, id)
    ELSE 0

\* The workflow holds the guard: from its acquisition to its terminal reset.
Holding(w) ==
    wf[w].pc \in {"begin", "service", "write", "send_undo", "await_undo",
                  "send_paste", "cleanup"}

\* C6: with paste_after, PasteFromClipboard is never submitted before the
\* reply to the workflow's UndoText has been received, so the Resource Owner
\* has attempted the undo before it attempts the paste.
C6_UndoBeforePaste ==
    \A w \in Workflows :
        /\ wf[w].paste_id # 0 =>
              /\ wf[w].paste_after
              /\ wf[w].undo_id # 0
              /\ reply[wf[w].undo_id] = Sent(<<>>)
              /\ Pos("undo", wf[w].undo_id) # 0
        /\ wf[w].paste_id # 0 /\ Pos("paste", wf[w].paste_id) # 0 =>
              Pos("undo", wf[w].undo_id) < Pos("paste", wf[w].paste_id)

\* A workflow's paste has been attempted by the Resource Owner.
C6_Witness ==
    \E w \in Workflows :
        wf[w].paste_id # 0 /\ Pos("paste", wf[w].paste_id) # 0

\* C7, as stated: at most one workflow holds the guard at any time, and the
\* workflow that finds it held exits having made no clipboard call and no
\* service call.
C7_SingleFlightNoCalls ==
    /\ Cardinality({w \in Workflows : Holding(w)}) <= 1
    /\ cleansing <=> \E w \in Workflows : Holding(w)
    /\ \A w \in Workflows :
          wf[w].pc = "rejected" =>
              wf[w].reads + wf[w].writes + wf[w].service = 0

\* C7, amended: at most one workflow holds the guard at any time, and the
\* workflow that finds it held exits having made no clipboard write and no
\* service call: its only call is the clipboard read of step 1, which
\* precedes the check of the guard.
C7_SingleFlight ==
    /\ Cardinality({w \in Workflows : Holding(w)}) <= 1
    /\ cleansing <=> \E w \in Workflows : Holding(w)
    /\ \A w \in Workflows :
          wf[w].pc = "rejected" =>
              wf[w].reads = 1 /\ wf[w].writes = 0 /\ wf[w].service = 0

\* One workflow found the guard held while another holds it.
C7_Witness ==
    \E w, v \in Workflows : wf[w].pc = "rejected" /\ Holding(v)

\* C8: every workflow that acquired the guard eventually completes, and the
\* step that completes it leaves the guard cleared and the indicator at
\* Default, whichever exit path it took.
C8_AlwaysCleansUp ==
    /\ \A w \in Workflows : Holding(w) ~> (wf[w].pc = "done")
    /\ [][\A w \in Workflows :
             wf[w].pc # "done" /\ wf'[w].pc = "done" =>
                 ~cleansing' /\ icon' = "Default"]_vars

\* A workflow has completed after its undo reply channel was closed.
C8_Witness ==
    \E w \in Workflows :
        /\ wf[w].pc = "done"
        /\ wf[w].undo_id # 0
        /\ reply[wf[w].undo_id] = Closed
        /\ ~cleansing
        /\ icon = "Default"

----------------------------------------------------------------------------
(* Properties of the trigger side of main.rs (checked under SpecMain) *)

\* C9: after a toggle-out that returned bytes, the orchestration ends with
\* the indicator restored to Default, on transcription success, on API
\* failure and on clipboard write failure.
C9_IndicatorRestored ==
    \A j \in 1..Len(jobs) :
        /\ jobs[j].pc = "panicked" /\ ~(jobs[j].api_ok /\ jobs[j].write_ok)
              => jobs[j].icon_reset
        /\ (\A k \in 1..Len(jobs) : jobs[k].pc # "api") /\ alive["main"]
              => icon # "Transcribing"

\* C10: when a toggle-out fails to stop the recorder for lack of data, from
\* either trigger, the application does not crash and the indicator is
\* returned to Default.
C10_StopFailureRecovers ==
    /\ mlast.thread # "none"
    /\ mlast.rec.is_recording
    /\ mlast.rec.samples = <<>>
    /\ ~RECORDER[mlast.thread].is_recording
    => alive["main"] /\ icon = "Default"

----------------------------------------------------------------------------
(* Ordering and resolution of tasks (checked under Spec and FairToggleSpec) *)

\* The tasks sent and not yet handled, in the order in which they will be
\* handled.
Queued == units \o chan

\* C11: tasks are handled strictly in send order: the tasks not yet handled
\* are exactly those sent after the last handled one, queued in send order,
\* and the input injections were attempted in the send order of their tasks.
C11_SendOrder ==
    /\ Len(Queued) = next_id - last.id
    /\ \A i \in 1..Len(Queued) : Queued[i].id = last.id + i
    /\ \A i, j \in 1..Len(enigo_log) :
          i < j => enigo_log[i].id < enigo_log[j].id

\* Two tasks have had their injections attempted while two more wait,
\* dispatched behind them.
C11_Witness ==
    /\ Len(enigo_log) >= 2
    /\ last.id >= 2
    /\ Len(units) >= 2

\* C13: every ToggleRecording task that is submitted is eventually resolved
\* for its caller: a reply value is received or the reply channel is seen
\* closed, on the start path, the successful stop, the failed stop and a
\* failure inside the handler.
C13_ToggleResolved ==
    \A id \in 1..MaxFairTasks :
        (\E i \in 1..Len(Queued) : Queued[i] = Task("ToggleRecording", id))
            ~> (id \in DOMAIN reply /\ reply[id].st \in {"sent", "closed"})

\* A start has been answered, and the stop after it, which found no
\* samples, has left its caller with a closed channel.
C13_Witness ==
    /\ last.id >= 2
    /\ LastToggleOut
    /\ ~last.panicked
    /\ reply[last.id] = Closed
    /\ reply[last.id - 1] = Sent(<<>>)

----------------------------------------------------------------------------
(* Properties of the AudioRecorder held by the Resource Owner (checked     *)
(* under Spec)                                                             *)

\* C12: in every reachable state of the AudioRecorder, also after a failed
\* start or a failed stop, is_recording is true if and only if a capture
\* stream handle is present.
C12_RecordingIffStream ==
    audio_recorder.is_recording <=> audio_recorder.stream

\* C18: start_recording resets the sample buffer, so the bytes returned by
\* a stop hold only samples captured since the most recent start: while a
\* stream captures, the buffer holds samples of the current session only,
\* and so does the reply of a toggle-out, after its container header.
C18_OnlyCurrentSession ==
    /\ audio_recorder.stream =>
          \A i \in 1..Len(audio_recorder.samples) :
              audio_recorder.samples[i] = session
    /\ LastToggleOut /\ reply[last.id].st = "sent" =>
          \A i \in 2..Len(reply[last.id].data) :
              reply[last.id].data[i] = session

\* A second session has been stopped and answered with its samples, after
\* a first session whose samples the stop had left in the buffer.
C18_Witness ==
    /\ session >= 2
    /\ LastToggleOut
    /\ reply[last.id].st = "sent"
    /\ \E id \in 1..(last.id - 1) :
          reply[id].st = "sent" /\ reply[id].data # <<>>

----------------------------------------------------------------------------
(* Properties of the media control of the Resource Owner (checked under    *)
(* Spec) and of main.rs (checked under SpecMain)                           *)

\* C14: a failure of the media pause command at toggle-in, or of the media
\* resume command at toggle-out, is logged only and does not fail the
\* handling: recording still starts and the empty reply is sent,
\* respectively the recorded bytes are sent as the reply.
C14_MediaFailureLoggedOnly ==
    LastIsToggle /\ last.media_err =>
        /\ ~last.panicked
        /\ reply[last.id].st = "sent"
        /\ LastToggleIn =>
              audio_recorder.is_recording /\ reply[last.id] = Sent(<<>>)
        /\ LastToggleOut => reply[last.id].data # <<>>

\* MediaPlayer::pause_spotify at the toggle-ins whose queries were answered:
\* the pause is issued and was_playing set exactly when the player is
\* running and playing.
OwnerPauseIffPlaying ==
    LastToggleIn /\ ~last.media_err /\ ~last.borrow_err =>
        /\ last.pause_cmd <=> last.playing
        /\ media_player.was_playing = (last.playing \/ last.was_playing)

\* C15: at a toggle-in, a pause command is issued to the external player
\* and was_playing is set if and only if the player is both running and
\* playing; otherwise no pause command is issued and was_playing is left
\* unchanged.  Stated of the toggle-ins of the Resource Owner whose queries
\* were answered, and of the toggle-ins of main.rs that started a recording.
C15_PauseIffPlaying ==
    /\ OwnerPauseIffPlaying
    /\ mlast.result = "StartRecording" =>
          (mlast.pause_cmd <=> mlast.playing)

----------------------------------------------------------------------------
(* Properties of the handling units (checked under Spec) *)

----------------------------------------------------------------------------
(* Properties of the transcription tasks of main.rs (checked under         *)
(* SpecMain)                                                               *)

\* C17: on the hotkey trigger the paste keys are injected only after the
\* transcription succeeded and the clipboard write succeeded, never when
\* either failed; on the tray-click trigger no paste is ever injected.
C17_PasteOnlyAfterSuccess ==
    \A j \in 1..Len(jobs) :
        /\ jobs[j].pasted =>
              /\ jobs[j].trigger = "hotkey"
              /\ jobs[j].api_ok
              /\ jobs[j].write_ok
        /\ jobs[j].pc = "panicked" => ~jobs[j].pasted
        /\ jobs[j].trigger = "tray" => ~jobs[j].pasted

\* A hotkey task has pasted, a tray task has completed without pasting.
C17_Witness ==
    \E j, k \in 1..Len(jobs) :
        /\ jobs[j].trigger = "hotkey"
        /\ jobs[j].pasted
        /\ jobs[k].trigger = "tray"
        /\ jobs[k].pc = "done"

----------------------------------------------------------------------------
(* Properties of the recorder state and of the indicator of main.rs        *)
(* (checked under SpecMain)                                                *)

\* The threads whose recorder has a capture stream alive.
Capturing == {t \in Threads : alive[t] /\ RECORDER[t].stream}

\* C19: the tray click and the hotkey act on one recorder state: at any
\* time at most one recording is active in the process, a toggle from
\* either source stops the recording that the other source started.
C19_OneRecorderState ==
    alive["main"] => Cardinality(Capturing) <= 1

\* C20: while a recording is in progress and no toggle is being handled,
\* the indicator shows Recording: after the most recent toggle started a
\* recording and set the indicator, the reset to Default of an earlier
\* transcription task does not overwrite it.
C20_RecordingShown ==
    /\ mlast.result = "StartRecording"
    /\ alive["main"]
    /\ RECORDER[mlast.thread].is_recording
    => icon = "Recording"

=============================================================================
